---- MODULE Spec2Model ----
(***************************************************************************)
(* A model of js/sam.js: the process-wide ONNX session (initModel), the    *)
(* segmentation facade (segmentBoxOnCanvas) with its model path and its    *)
(* colour-threshold fallback, the nearest-neighbour mask resampler         *)
(* (resampleMaskTo), the mask tint (maskToImageData, downloadMaskPNG) and  *)
(* the boundary tracer (maskToGeoJSON); and of libs/sam.js: the            *)
(* placeholder window.samSegment, which paints on the canvas it is given.  *)
(*                                                                         *)
(* Numbers that are fractional in the program are kept as scaled integers: *)
(* a box coordinate is held as twice its value (so 3 is 1.5), a tensor     *)
(* value as ten times its value (so 6 is 0.6).                             *)
(***************************************************************************)
EXTENDS Integers, Sequences, FiniteSets, TLC

VARIABLES
    ortSession,   \* sam.js:5  the session handle: NULL or an index of SessionTable
    modelReady,   \* sam.js:6  the ready flag
    windowOrt,    \* whether the page loaded onnxruntime-web (window.ort)
    initProc,     \* the initModel calls in flight: "idle" or "loading" (the await of line 27)
    lastInit,     \* history: how the initModel call that finished last ended
    source,       \* the caller's source canvas, a raster
    seg,          \* the segmentBoxOnCanvas call: its position, locals and result
    rs,           \* a resampleMaskTo call: its arguments and its result
    tr,           \* a maskToGeoJSON call: its arguments, loop state and result
    im,           \* a maskToImageData or downloadMaskPNG call and its image
    tn,           \* the tensor preprocessing of the model path (lines 64-80)
    sam           \* the window.samSegment calls (libs/sam.js) and what the last returned

vars == <<ortSession, modelReady, windowOrt, initProc, lastInit, source, seg, rs, tr, im, tn, sam>>

sessionVars == <<ortSession, modelReady, windowOrt, initProc, lastInit>>

-----------------------------------------------------------------------------
(* Bounds of the model. *)

\* The source canvas is SrcW x SrcH pixels.
SrcW == 2
SrcH == 2

\* The number of initModel calls that can be in flight at once.
MaxInit == 2

-----------------------------------------------------------------------------
(* Values of the program. *)

NULL == 0

Max(a, b) == IF a >= b THEN a ELSE b

\* Math.floor of a number held as twice its value.
Floor2(v2) == v2 \div 2

\* A read of a typed array or of an array at 0-based index i: undefined when
\* i is outside it.  undefined is written Undef; every element is a number.
Undef == [undefined |-> TRUE, v |-> 0]
Num(n) == [undefined |-> FALSE, v |-> n]
At0(arr, i) == IF i >= 0 /\ i < Len(arr) THEN Num(arr[i + 1]) ELSE Undef

\* An array as the model holds it: its length len and its first elements
\* written out (head); when len is greater than Len(head), the elements
\* beyond the head repeat the last `period` elements of the head, in order.
Arr(head) == [head |-> head, period |-> 0, len |-> Len(head)]

\* Element k (1-based) of such an array.
ArrAt(a, k) ==
    IF k <= Len(a.head) THEN a.head[k]
    ELSE a.head[Len(a.head) - a.period + ((k - Len(a.head) - 1) % a.period) + 1]

\* A store into a Uint8ClampedArray: undefined (NaN) is stored as 0.
ToUint8Clamped(e) ==
    IF e.undefined THEN 0 ELSE IF e.v < 0 THEN 0 ELSE IF e.v > 255 THEN 255 ELSE e.v

\* A canvas pixel <<R, G, B, A>>; a fresh canvas is transparent black.
Transparent == <<0, 0, 0, 0>>

\* Opaque colours on and around the edges of the blue-ish test of line 130.
Palette ==
    << <<0, 0, 255, 255>>,     <<0, 0, 100, 255>>,   <<0, 0, 101, 255>>,
       <<71, 0, 101, 255>>,    <<70, 0, 101, 255>>,  <<0, 81, 101, 255>>,
       <<0, 80, 101, 255>>,    <<255, 255, 255, 255>>,
       <<200, 100, 131, 255>>, <<0, 0, 0, 255>> >>

\* The source canvases: SrcW x SrcH, row-major, their pixels pairwise distinct.
SourceOf(k) ==
    [w |-> SrcW, h |-> SrcH,
     data |-> [i \in 1..(SrcW * SrcH) |-> Palette[((i - 1 + k) % Len(Palette)) + 1]]]

Sources == {SourceOf(k) : k \in {0}}

\* The pixel of raster r at (x, y), 0-based.
PixelAt(r, x, y) == r.data[y * r.w + x + 1]

-----------------------------------------------------------------------------
(* The inference runtime: sessions and the outcomes of session.run. *)

\* The sessions InferenceSession.create can resolve to.  A session may or may
\* not expose inputNames; an exposed list may be empty.
SessionTable ==
    << [hasInputNames |-> FALSE, inputNames |-> <<>>],
       [hasInputNames |-> TRUE,  inputNames |-> <<>>],
       [hasInputNames |-> TRUE,  inputNames |-> <<"image", "mask_input">>] >>

SessionIds == 1..Len(SessionTable)

\* Line 83: ortSession.inputNames || ['input', 'images', 'image', 'input_image'].
DefaultInputNames == <<"input", "images", "image", "input_image">>

InputNamesToTry(sess) ==
    IF SessionTable[sess].hasInputNames
    THEN SessionTable[sess].inputNames
    ELSE DefaultInputNames

\* What one session.run call can do: throw (reject), resolve to an object
\* with no output, or resolve to outputs whose first is a tensor with the
\* given dims and data (data in tenths).
Throws == [kind |-> "throw", dims |-> <<>>, data |-> <<>>]
NoOutput == [kind |-> "empty", dims |-> <<>>, data |-> <<>>]
Tensor(dims, data) == [kind |-> "tensor", dims |-> dims, data |-> data]

\* Output tensors: dims of fewer than two entries, grids smaller than, equal
\* to and larger than the crops, empty grids, data shorter than the grid,
\* values on both sides of 0.5, logits above 1 and below 0.
Tensors ==
    { Tensor(<<>>, <<6>>),            Tensor(<<2>>, <<6, 6>>),
      Tensor(<<1, 1, 1, 2>>, <<6, 5>>),
      Tensor(<<1, 2, 2>>, <<5, 6, 6, 5>>),
      Tensor(<<2, 2>>, <<6>>),        Tensor(<<0, 2>>, <<>>),
      Tensor(<<3, 3>>, <<6, 6, 5, 5, 6, 5, 5, 20, 0 - 30>>) }

RunOutcomes == {Throws, NoOutput} \cup Tensors

-----------------------------------------------------------------------------
(* segmentBoxOnCanvas: the crop (lines 45-54). *)

\* The boxes callers pass: x, y, w, h held as twice their value.  Boxes are
\* the boxes of the facade's specification; CropBoxes, wider, those of the
\* crop's specification.  Both hold boxes inside the source, boxes reaching
\* beyond each of its sides, fractional and non-positive sizes.
Boxes == [x : {0 - 2, 3}, y : {0}, w : {3, 6}, h : {0, 5}]

CropBoxes ==
    [x : {0 - 3, 0 - 2, 0, 1, 2, 3, 4}, y : {0 - 2, 0, 3, 4},
     w : {0 - 2, 0, 1, 2, 3, 4, 6},     h : {0, 2, 5}]

CropSX(box) == Max(0, Floor2(box.x))
CropSY(box) == Max(0, Floor2(box.y))
CropSW(box) == Max(1, Floor2(box.w))
CropSH(box) == Max(1, Floor2(box.h))

\* ctx.drawImage(src, sx, sy, sw, sh, 0, 0, sw, sh) onto a fresh sw x sh
\* canvas: the source rectangle is clipped to the source, the destination
\* rectangle in the same proportion (here 1:1), and what is not drawn stays
\* transparent black.  The source pixels are opaque, so source-over
\* compositing copies them.
DrawImage(src, sx, sy, sw, sh) ==
    [w |-> sw, h |-> sh,
     data |-> [k \in 1..(sw * sh) |->
                 LET i == (k - 1) % sw
                     j == (k - 1) \div sw
                 IN  IF sx + i < src.w /\ sy + j < src.h
                     THEN PixelAt(src, sx + i, sy + j)
                     ELSE Transparent]]

CropOf(src, box) == DrawImage(src, CropSX(box), CropSY(box), CropSW(box), CropSH(box))

-----------------------------------------------------------------------------
(* The colour-threshold fallback (lines 120-134). *)

\* The test with one comparison no longer strict.
IsBlueNotStrict(r, g, b) == (b > 100) /\ (b >= r + 30) /\ (b > g + 20)

\* Line 130.
IsBlue(r, g, b) == (b > 100) /\ (b > r + 30) /\ (b > g + 20)

ThresholdMask(crop) ==
    [k \in 1..(crop.w * crop.h) |->
        LET p == crop.data[k] IN IF IsBlue(p[1], p[2], p[3]) THEN 255 ELSE 0]

-----------------------------------------------------------------------------
(* resampleMaskTo (lines 138-148). *)

\* The source index taken with the target's row length.
ResampleIndexTargetStride(xx, yy, w, h, tw, th) ==
    LET sx == (xx * w) \div tw
        sy == (yy * h) \div th
    IN  sy * tw + sx

\* Lines 142-144: the index of the source element read for target (xx, yy).
ResampleIndex(xx, yy, w, h, tw, th) ==
    LET sx == (xx * w) \div tw
        sy == (yy * h) \div th
    IN  sy * w + sx

ResampleMaskTo(mask, w, h, tw, th) ==
    [k \in 1..(tw * th) |->
        LET yy == (k - 1) \div tw
            xx == (k - 1) % tw
        IN  ToUint8Clamped(At0(mask, ResampleIndex(xx, yy, w, h, tw, th)))]

-----------------------------------------------------------------------------
(* The model path: reading the first output of a run (lines 92-106). *)

\* Line 102: val > 0.5, on a value in tenths; undefined > 0.5 is false.
AboveThreshold(e) == (~e.undefined) /\ e.v > 5

\* The output copied without the threshold.
BinarizeOutputRaw(data, n) == [i \in 1..n |-> ToUint8Clamped(At0(data, i - 1))]

\* Lines 99-103: the output thresholded at its own resolution.
BinarizeOutput(data, n) ==
    [i \in 1..n |-> IF AboveThreshold(At0(data, i - 1)) THEN 255 ELSE 0]

\* The model mask returned at the output's resolution, not resampled.
InterpretOutputNoResample(out, sw, sh) ==
    LET n   == Len(out.dims)
        owE == At0(out.dims, n - 1)
        ohE == At0(out.dims, n - 2)
    IN  IF out.kind # "tensor" THEN [ok |-> FALSE, mask |-> <<>>]
        ELSE IF owE.undefined \/ ohE.undefined THEN [ok |-> TRUE, mask |-> <<>>]
        ELSE IF owE.v * ohE.v < 0 THEN [ok |-> FALSE, mask |-> <<>>]
        ELSE [ok |-> TRUE, mask |-> BinarizeOutput(out.data, owE.v * ohE.v)]

\* Lines 92-106 on one resolved run: ok is FALSE when a statement throws
\* (no first output; new Uint8ClampedArray of a negative length).  A missing
\* dimension is undefined: ow * oh is NaN, the array of line 99 has length 0,
\* and every index the resampler computes is NaN, so it reads undefined
\* everywhere and stores 0.
InterpretOutput(out, sw, sh) ==
    LET n   == Len(out.dims)
        owE == At0(out.dims, n - 1)
        ohE == At0(out.dims, n - 2)
    IN  IF out.kind # "tensor" THEN [ok |-> FALSE, mask |-> <<>>]
        ELSE IF owE.undefined \/ ohE.undefined
             THEN [ok |-> TRUE, mask |-> [k \in 1..(sw * sh) |-> ToUint8Clamped(Undef)]]
        ELSE IF owE.v * ohE.v < 0 THEN [ok |-> FALSE, mask |-> <<>>]
        ELSE [ok |-> TRUE,
              mask |-> ResampleMaskTo(BinarizeOutput(out.data, owE.v * ohE.v),
                                      owE.v, ohE.v, sw, sh)]

-----------------------------------------------------------------------------
(* The tensor preprocessing of the model path (lines 64-80). *)

\* The side S of the square model input: MODEL_SIZE, 1024 in the program
\* (line 64), kept small here.
TensorSide == 2

\* Pixels of the resized crop: the three channels pairwise different, alpha
\* opaque, partial and zero.
TensorPixels == {<<255, 0, 51, 255>>, <<0, 102, 204, 7>>, <<10, 20, 30, 0>>}

\* Line 71: getImageData gives the S x S pixels row-major, four bytes each.
ImageDataOf(pixels) == [k \in 1..(Len(pixels) * 4) |-> pixels[((k - 1) \div 4) + 1][((k - 1) % 4) + 1]]

\* Lines 73-78.  floatData has S * S * 3 elements; element p * 3 + c is
\* channel c of pixel p over 255.  A value is held as its numerator over 255.
FloatDataOf(data, size) ==
    [k \in 1..(size * size * 3) |->
        LET p == (k - 1) \div 3
            c == (k - 1) % 3
        IN  IF p * 4 < Len(data) THEN data[p * 4 + c + 1] ELSE 0]

\* Line 80: the dims the tensor is declared with.
TensorDims(size) == <<1, 3, size, size>>

\* Line 70: tctx.drawImage(crop, 0, 0, S, S) stretches the crop onto the
\* S x S canvas.  The filter is the browser's; the model takes for each
\* target pixel the crop pixel under its centre.
StretchTo(crop, size) ==
    [k \in 1..(size * size) |->
        LET x == (k - 1) % size
            y == (k - 1) \div size
        IN  crop.data[(((2 * y + 1) * crop.h) \div (2 * size)) * crop.w
                      + (((2 * x + 1) * crop.w) \div (2 * size)) + 1]]

TnIdle == [pc |-> "idle", imgData |-> <<>>, floatData |-> <<>>, dims |-> <<>>]

\* Lines 64-80: the tensor a call builds from its crop before its first run.
BuildTensor(crop) ==
    [pc |-> "built",
     imgData |-> ImageDataOf(StretchTo(crop, TensorSide)),
     floatData |-> FloatDataOf(ImageDataOf(StretchTo(crop, TensorSide)), TensorSide),
     dims |-> TensorDims(TensorSide)]

-----------------------------------------------------------------------------
(* segmentBoxOnCanvas (lines 43-135) as the steps between its awaits. *)

NoResult == [mask |-> <<>>, width |-> 0, height |-> 0]
NoRaster == [w |-> 0, h |-> 0, data |-> <<>>]
NoBox == [x |-> 0, y |-> 0, w |-> 0, h |-> 0]

SegIdle ==
    [pc |-> "idle", box |-> NoBox, crop |-> NoRaster, names |-> <<>>, idx |-> 0,
     feeds |-> {}, runLog |-> <<>>, allThrew |-> TRUE, lastOut |-> Throws, path |-> "none",
     finalMask |-> <<>>, result |-> NoResult, raised |-> FALSE, startInit |-> "none"]

\* A guard that forgets the ready flag.
SessionUsableIgnoresReady(ready, sess) == sess # NULL

\* Line 57.
SessionUsable(ready, sess) == ready /\ sess # NULL

\* Lines 120-134: the fallback classifies the crop and the call returns.
Fallback(s) ==
    [s EXCEPT !.pc = "done", !.path = "fallback", !.feeds = {},
              !.result = [mask |-> ThresholdMask(s.crop),
                          width |-> s.crop.w, height |-> s.crop.h]]

\* Line 106: the call returns the resampled model mask.
ReturnModelMask(s, mask) ==
    [s EXCEPT !.pc = "done", !.path = "model",
              !.result = [mask |-> mask, width |-> s.crop.w, height |-> s.crop.h]]

\* Lines 86-90 and 107-114 from the top of the for loop at name idx (1-based)
\* to the next await or to the return.  ortSession is read at each attempt:
\* when it is null, ortSession.run throws a TypeError inside the inner try,
\* which the catch of line 107 takes to the next name.
RECURSIVE LoopFrom(_, _, _)
\* An inner try without its catch: the error leaves the call.
CatchRunErrRethrows(s, idx, sess) == [s EXCEPT !.pc = "done", !.raised = TRUE]

\* A catch that keeps the names already fed.
CatchRunErrKeepsFeeds(s, idx, sess) == LoopFrom(s, idx + 1, sess)

\* Lines 107-111: feeds is cleared and the loop continues.
CatchRunErr(s, idx, sess) == LoopFrom([s EXCEPT !.feeds = {}], idx + 1, sess)

\* A loop where the attempt on a null handle is outside the inner try.
LoopFromNullEscapes(s, idx, sess) ==
    IF idx > Len(s.names) THEN Fallback(s)
    ELSE IF sess = NULL THEN [s EXCEPT !.pc = "done", !.raised = TRUE]
    ELSE [s EXCEPT !.pc = "awaitRun", !.idx = idx,
                   !.feeds = s.feeds \cup {s.names[idx]},
                   !.runLog = Append(s.runLog, s.feeds \cup {s.names[idx]})]

LoopFrom(s, idx, sess) ==
    IF idx > Len(s.names) THEN Fallback(s)
    ELSE IF sess = NULL
         THEN CatchRunErr([s EXCEPT !.feeds = s.feeds \cup {s.names[idx]}], idx, sess)
    ELSE [s EXCEPT !.pc = "awaitRun", !.idx = idx,
                   !.feeds = s.feeds \cup {s.names[idx]},
                   !.runLog = Append(s.runLog, s.feeds \cup {s.names[idx]})]

\* Lines 43-90: the call up to its first await, or to its return when the
\* model is not tried.
SegmentStart(src, box, ready, sess, last) ==
    LET s0 == [SegIdle EXCEPT !.box = box, !.crop = CropOf(src, box),
                              !.startInit = last]
    IN  IF SessionUsable(ready, sess)
        THEN LoopFrom([s0 EXCEPT !.names = InputNamesToTry(sess)], 1, sess)
        ELSE Fallback(s0)

\* Lines 90-111: the awaited run settles with outcome out.  When lines
\* 92-105 throw nothing, resampleMaskTo has run and the call awaits the
\* promise it returned (line 105).
SegmentResume(s, out, sess) ==
    LET r  == InterpretOutput(out, s.crop.w, s.crop.h)
        s1 == [s EXCEPT !.lastOut = out,
                        !.allThrew = s.allThrew /\ out.kind = "throw"]
    IN  IF r.ok THEN [s1 EXCEPT !.pc = "awaitResample", !.finalMask = r.mask]
        ELSE CatchRunErr(s1, s.idx, sess)

SegmentCallOn(boxes) ==
    /\ seg.pc \in {"idle", "done"}
    /\ \E box \in boxes :
         /\ seg' = SegmentStart(source, box, modelReady, ortSession, lastInit)
         /\ tn' = IF SessionUsable(modelReady, ortSession)
                  THEN BuildTensor(CropOf(source, box))
                  ELSE TnIdle
    /\ UNCHANGED <<sessionVars, source, rs, tr, im, sam>>

SegmentCall == SegmentCallOn(Boxes)

\* A facade that marks the session failed when its attempts end in the fallback.
SegmentRunSettlesMarksFailed ==
    /\ seg.pc = "awaitRun"
    /\ \E out \in RunOutcomes : seg' = SegmentResume(seg, out, ortSession)
    /\ modelReady' = (modelReady /\ seg'.path # "fallback")
    /\ UNCHANGED <<ortSession, windowOrt, initProc, lastInit, source, rs, tr, im, tn, sam>>

SegmentRunSettles ==
    /\ seg.pc = "awaitRun"
    /\ \E out \in RunOutcomes : seg' = SegmentResume(seg, out, ortSession)
    /\ UNCHANGED <<sessionVars, source, rs, tr, im, tn, sam>>

\* Lines 105-106: the awaited resample settles and the call returns.
SegmentResampleSettles ==
    /\ seg.pc = "awaitResample"
    /\ seg' = ReturnModelMask(seg, seg.finalMask)
    /\ UNCHANGED <<sessionVars, source, rs, tr, im, tn, sam>>

-----------------------------------------------------------------------------
(* window.samSegment (libs/sam.js, lines 3-16). *)

\* The number of samSegment calls followed.
MaxPaints == 1

\* The rectangle callers pass: it covers canvas pixels and reaches beyond the
\* canvas.
SamRects == { [x |-> 1, y |-> 0, width |-> 2, height |-> 1] }

\* libs/sam.js line 10: the fill style rgba(0, 0, 255, 0.3).
FillStyle == [rgb |-> <<0, 0, 255>>, alphaTenths |-> 3]

\* Source-over compositing of the fill on an opaque pixel, each channel
\* rounded to the nearest byte; the pixel stays opaque.
Blend(p) ==
    [c \in 1..4 |->
        IF c = 4 THEN p[4]
        ELSE (FillStyle.rgb[c] * FillStyle.alphaTenths
                 + p[c] * (10 - FillStyle.alphaTenths) + 5) \div 10]

\* libs/sam.js line 11: fillRect on the canvas, clipped to it.
FillRect(src, rect) ==
    [src EXCEPT !.data =
        [k \in 1..(src.w * src.h) |->
            LET x == (k - 1) % src.w
                y == (k - 1) \div src.w
            IN  IF /\ x >= rect.x /\ x < rect.x + rect.width
                   /\ y >= rect.y /\ y < rect.y + rect.height
                THEN Blend(src.data[k]) ELSE src.data[k]]]

\* libs/sam.js line 14: getImageData of the rectangle; what lies outside the
\* canvas reads as transparent black.
GetImageData(src, rect) ==
    [w |-> rect.width, h |-> rect.height,
     data |-> [k \in 1..(rect.width * rect.height) |->
                 LET x == rect.x + ((k - 1) % rect.width)
                     y == rect.y + ((k - 1) \div rect.width)
                 IN  IF x >= 0 /\ x < src.w /\ y >= 0 /\ y < src.h
                     THEN PixelAt(src, x, y) ELSE Transparent]]

SamIdle == [calls |-> 0, rect |-> [x |-> 0, y |-> 0, width |-> 0, height |-> 0],
            mask |-> NoRaster]

\* samSegment(canvas, rect) on the source canvas: it has no await, so the
\* call is one step.  The canvas has a 2d context.
SamSegment ==
    /\ sam.calls < MaxPaints
    /\ \E rect \in SamRects :
         /\ source' = FillRect(source, rect)
         /\ sam' = [calls |-> sam.calls + 1, rect |-> rect,
                    mask |-> GetImageData(FillRect(source, rect), rect)]
    /\ UNCHANGED <<sessionVars, seg, rs, tr, im, tn>>

-----------------------------------------------------------------------------
(* initModel (lines 13-35). *)

InitProcs == 1..MaxInit

\* Lines 16 and 22: the ready flag after a call that loads nothing.
ReadyAfterNoLoad == FALSE

\* Lines 14-18: no URL.
InitNoUrl(p) ==
    /\ initProc[p] = "idle"
    /\ modelReady' = ReadyAfterNoLoad
    /\ lastInit' = "nourl"
    /\ UNCHANGED <<ortSession, windowOrt, initProc, source, seg, rs, tr, im, tn, sam>>

\* Lines 20-24: a URL, but window.ort is missing.
InitNoRuntime(p) ==
    /\ initProc[p] = "idle"
    /\ ~windowOrt
    /\ modelReady' = ReadyAfterNoLoad
    /\ lastInit' = "noruntime"
    /\ UNCHANGED <<ortSession, windowOrt, initProc, source, seg, rs, tr, im, tn, sam>>

\* Lines 25-27: the call awaits InferenceSession.create.
InitLoadStart(p) ==
    /\ initProc[p] = "idle"
    /\ windowOrt
    /\ initProc' = [initProc EXCEPT ![p] = "loading"]
    /\ UNCHANGED <<ortSession, modelReady, windowOrt, lastInit, source, seg, rs, tr, im, tn, sam>>

\* Lines 27-29: create resolved to session sid.
InitLoadResolved(p) ==
    /\ initProc[p] = "loading"
    /\ \E sid \in SessionIds : ortSession' = sid
    /\ modelReady' = TRUE
    /\ lastInit' = "ok"
    /\ initProc' = [initProc EXCEPT ![p] = "idle"]
    /\ UNCHANGED <<windowOrt, source, seg, rs, tr, im, tn, sam>>

\* A catch that clears the handle and leaves the ready flag as it is.
InitLoadRejectedKeepsReady(p) ==
    /\ initProc[p] = "loading"
    /\ ortSession' = NULL
    /\ lastInit' = "loadfailed"
    /\ initProc' = [initProc EXCEPT ![p] = "idle"]
    /\ UNCHANGED <<modelReady, windowOrt, source, seg, rs, tr, im, tn, sam>>

\* Lines 30-34: create rejected.
InitLoadRejected(p) ==
    /\ initProc[p] = "loading"
    /\ ortSession' = NULL
    /\ modelReady' = FALSE
    /\ lastInit' = "loadfailed"
    /\ initProc' = [initProc EXCEPT ![p] = "idle"]
    /\ UNCHANGED <<windowOrt, source, seg, rs, tr, im, tn, sam>>

-----------------------------------------------------------------------------
(* The specification of the session and the facade. *)

RsIdle == [pc |-> "idle", mask |-> <<>>, w |-> 0, h |-> 0, tw |-> 0, th |-> 0, out |-> <<>>]

TrIdle ==
    [pc |-> "idle", mask |-> <<>>, width |-> 0, height |-> 0, offsetX |-> 0, offsetY |-> 0,
     start |-> 0 - 1, curr |-> 0, prevDir |-> 0, done |-> FALSE, loopGuard |-> 0,
     coords |-> Arr(<<>>), trail |-> <<>>, features |-> <<>>]

ImIdle ==
    [pc |-> "idle", mask |-> <<>>, width |-> 0, height |-> 0, overlayColor |-> <<0, 0, 0, 0>>,
     image |-> [width |-> 0, height |-> 0, data |-> <<>>],
     canvas |-> [width |-> 0, height |-> 0]]

Init ==
    /\ ortSession = NULL
    /\ modelReady = FALSE
    /\ windowOrt \in BOOLEAN
    /\ initProc = [p \in InitProcs |-> "idle"]
    /\ lastInit = "none"
    /\ source \in Sources
    /\ seg = SegIdle
    /\ sam = SamIdle
    /\ im = ImIdle
    /\ tn = TnIdle
    /\ rs = RsIdle
    /\ tr = TrIdle

Next ==
    \/ SegmentCall
    \/ SegmentRunSettles
    \/ SegmentResampleSettles
    \/ SamSegment
    \/ \E p \in InitProcs : InitNoUrl(p)
    \/ \E p \in InitProcs : InitNoRuntime(p)
    \/ \E p \in InitProcs : InitLoadStart(p)
    \/ \E p \in InitProcs : InitLoadResolved(p)
    \/ \E p \in InitProcs : InitLoadRejected(p)

Spec == Init /\ [][Next]_vars

-----------------------------------------------------------------------------
(* Properties of the facade, checked under Spec. *)

Range(f) == {f[i] : i \in DOMAIN f}

\* The call has returned or thrown.
SegDone == seg.pc = "done"

\* The mask the blue-ish rule gives for the crop, pixel by pixel.
BlueRuleMask(crop) ==
    [k \in 1..Len(crop.data) |->
        LET R == crop.data[k][1]
            G == crop.data[k][2]
            B == crop.data[k][3]
        IN  IF B > 100 /\ B > R + 30 /\ B > G + 20 THEN 255 ELSE 0]

\* C1: when the session was ready and every session.run of the call threw,
\* the call raises nothing and returns the threshold classifier's mask of
\* its crop, the crop being the box region of the source canvas as long as
\* nothing has painted on that canvas.
C1_AllRunsThrowFallsBack ==
    (SegDone /\ Len(seg.runLog) >= 1 /\ seg.allThrew)
        => /\ ~seg.raised
           /\ seg.result.mask = ThresholdMask(seg.crop)
           /\ sam.calls = 0 => seg.crop = CropOf(source, seg.box)

\* Every candidate name of a session without inputNames was tried, every run
\* threw, and the returned mask has a foreground pixel.
C1_Witness ==
    /\ SegDone
    /\ Len(seg.runLog) = Len(DefaultInputNames)
    /\ seg.allThrew
    /\ 255 \in Range(seg.result.mask)

\* The last run of the call resolved to a tensor whose dims have fewer than
\* two entries.
ShortDimsRun ==
    /\ SegDone
    /\ Len(seg.runLog) >= 1
    /\ seg.lastOut.kind = "tensor"
    /\ Len(seg.lastOut.dims) < 2

\* C2: when a run resolves to a tensor whose dims have fewer than two
\* entries, the call returns the threshold classifier's mask of the crop and
\* not a mask made from the model output.
C2_ShortDimsFallsBack ==
    ShortDimsRun
        => /\ seg.path = "fallback"
           /\ seg.result.mask = ThresholdMask(seg.crop)

FailedInits == {"nourl", "noruntime", "loadfailed"}

\* C3: a segmentBoxOnCanvas call made when the initModel call that finished
\* last ended without a usable session calls session.run not once, starts
\* no load, changes nothing of the session, raises nothing and returns the
\* threshold classifier's mask.
C3_NoModelAfterFailedInit ==
    [][ (seg.pc \in {"idle", "done"} /\ seg' # seg /\ lastInit \in FailedInits)
            => /\ seg'.pc = "done"
               /\ seg'.runLog = <<>>
               /\ ~seg'.raised
               /\ seg'.result.mask = ThresholdMask(CropOf(source, seg'.box))
               /\ UNCHANGED sessionVars ]_vars

\* A call made after an initModel without URL that followed a successful
\* load: the session handle is still set, and the call fell back.
C3_Witness ==
    /\ SegDone
    /\ seg.startInit = "nourl"
    /\ lastInit = "nourl"
    /\ ortSession # NULL
    /\ seg.runLog = <<>>
    /\ 255 \in Range(seg.result.mask)

\* C4: every returned result has width max(1, floor(box.w)), height
\* max(1, floor(box.h)) and a mask of exactly width * height elements, on
\* the model path and on the fallback path.
C4_ResultHasCropSize ==
    (SegDone /\ ~seg.raised)
        => LET fw == seg.box.w \div 2
               fh == seg.box.h \div 2
           IN  /\ seg.result.width = (IF fw >= 1 THEN fw ELSE 1)
               /\ seg.result.height = (IF fh >= 1 THEN fh ELSE 1)
               /\ Len(seg.result.mask) = seg.result.width * seg.result.height

\* A model-path result of size 3 x 2 made from a 3 x 3 output grid.
C4_Witness ==
    /\ SegDone
    /\ seg.path = "model"
    /\ seg.lastOut.dims = <<3, 3>>
    /\ seg.result.width = 3
    /\ seg.result.height = 2
    /\ Len(seg.result.mask) = 6

\* C5: every element of every returned mask is 0 or 255.
C5_MaskIsBinary ==
    (SegDone /\ ~seg.raised) => \A k \in DOMAIN seg.result.mask : seg.result.mask[k] \in {0, 255}

\* A model-path mask with both values, resampled up from a 2 x 2 grid.
C5_Witness ==
    /\ SegDone
    /\ seg.path = "model"
    /\ seg.lastOut.dims = <<1, 2, 2>>
    /\ Len(seg.result.mask) = 6
    /\ Range(seg.result.mask) = {0, 255}

\* C6: on the fallback path the mask value of a crop pixel (R, G, B, A) is
\* 255 when B > 100, B > R + 30 and B > G + 20, and 0 otherwise: a function
\* of the crop's RGB data alone.
C6_FallbackIsBlueRule ==
    (SegDone /\ seg.path = "fallback") => seg.result.mask = BlueRuleMask(seg.crop)

\* A fallback after model attempts, on a crop holding foreground pixels,
\* opaque background pixels and uncopied transparent ones.
C6_Witness ==
    /\ SegDone
    /\ seg.path = "fallback"
    /\ Len(seg.runLog) >= 1
    /\ Range(seg.result.mask) = {0, 255}
    /\ Transparent \in Range(seg.crop.data)
    /\ <<71, 0, 101, 255>> \in Range(seg.crop.data)

-----------------------------------------------------------------------------
(* The crop alone: segmentBoxOnCanvas with no session, over CropBoxes. *)

CropCall == SegmentCallOn(CropBoxes)

SpecCrop == Init /\ [][CropCall]_vars

\* C7: the crop has size (max(1, floor(w)), max(1, floor(h))); its pixel at
\* (i, j) is the source pixel at the box's position (floor(x) + i,
\* floor(y) + j) when that position is inside the source, and is left
\* uncopied (transparent) when it is outside; nothing is raised.
C7_CropIsBoxRegion ==
    SegDone
        => LET bx == seg.box.x \div 2
               by == seg.box.y \div 2
               fw == seg.box.w \div 2
               fh == seg.box.h \div 2
               cw == IF fw >= 1 THEN fw ELSE 1
               ch == IF fh >= 1 THEN fh ELSE 1
           IN  /\ ~seg.raised
               /\ seg.crop.w = cw
               /\ seg.crop.h = ch
               /\ Len(seg.crop.data) = cw * ch
               /\ \A i \in 0..(cw - 1), j \in 0..(ch - 1) :
                    seg.crop.data[j * cw + i + 1] =
                        IF /\ bx + i >= 0 /\ bx + i < source.w
                           /\ by + j >= 0 /\ by + j < source.h
                        THEN PixelAt(source, bx + i, by + j)
                        ELSE Transparent

-----------------------------------------------------------------------------
(* resampleMaskTo on its own. *)

\* Source masks are up to RsMaxW x RsMaxH, targets up to RsMaxT x RsMaxT.
RsMaxW == 2
RsMaxH == 2
RsMaxT == 3

MasksOfSize(n) == [1..n -> {0, 255}]

InitResample ==
    /\ ortSession = NULL
    /\ modelReady = FALSE
    /\ windowOrt = FALSE
    /\ initProc = [p \in InitProcs |-> "idle"]
    /\ lastInit = "none"
    /\ source = SourceOf(0)
    /\ seg = SegIdle
    /\ sam = SamIdle
    /\ im = ImIdle
    /\ tn = TnIdle
    /\ tr = TrIdle
    /\ \E w \in 1..RsMaxW, h \in 1..RsMaxH, tw \in 0..RsMaxT, th \in 0..RsMaxT :
         \E m \in MasksOfSize(w * h) :
            rs = [RsIdle EXCEPT !.pc = "args", !.mask = m, !.w = w, !.h = h,
                                !.tw = tw, !.th = th]

ResampleCall ==
    /\ rs.pc = "args"
    /\ rs' = [rs EXCEPT !.pc = "done",
                        !.out = ResampleMaskTo(rs.mask, rs.w, rs.h, rs.tw, rs.th)]
    /\ UNCHANGED <<sessionVars, source, seg, tr, im, tn, sam>>

SpecResample == InitResample /\ [][ResampleCall]_vars

\* C8: resampleMaskTo(m, w, h, tw, th) has exactly tw * th elements, the one
\* at (xx, yy) being m at (floor(xx * w / tw), floor(yy * h / th)); with
\* tw = w and th = h the result is m.
C8_ResampleIsNearestNeighbour ==
    rs.pc = "done"
        => /\ Len(rs.out) = rs.tw * rs.th
           /\ \A xx \in 0..(rs.tw - 1), yy \in 0..(rs.th - 1) :
                LET sx == (xx * rs.w) \div rs.tw
                    sy == (yy * rs.h) \div rs.th
                IN  rs.out[yy * rs.tw + xx + 1] = rs.mask[sy * rs.w + sx + 1]
           /\ (rs.tw = rs.w /\ rs.th = rs.h) => rs.out = rs.mask

\* A 2 x 2 mask of both values resampled to a wider and lower target.
C8_Witness ==
    /\ rs.pc = "done"
    /\ rs.w = 2 /\ rs.h = 2 /\ rs.tw = 3 /\ rs.th = 1
    /\ Range(rs.mask) = {0, 255}
    /\ Range(rs.out) = {0, 255}

-----------------------------------------------------------------------------
(* maskToGeoJSON (lines 186-257) as the iterations of its walk. *)

\* Line 213: the ceiling of the walk's iterations.
LoopCeiling == 1000000

\* Line 238: the walk closes on the start pixel only with more points than this.
MinClosedRing == 20

\* Lines 202-205.
directions ==
    << <<0 - 1, 0>>, <<0 - 1, 0 - 1>>, <<0, 0 - 1>>, <<1, 0 - 1>>,
       <<1, 0>>,     <<1, 1>>,         <<0, 1>>,     <<0 - 1, 1>> >>

\* Lines 188-189: bin[i] = mask[i] ? 1 : 0 (undefined is falsy).
BinOf(mask, width, height) ==
    [i \in 1..(width * height) |->
        LET e == At0(mask, i - 1) IN IF (~e.undefined) /\ e.v # 0 THEN 1 ELSE 0]

\* A scan that starts at the second element.
FirstForegroundSkipsFirst(bin) ==
    IF \E i \in 2..Len(bin) : bin[i] = 1
    THEN (CHOOSE i \in 2..Len(bin) : bin[i] = 1 /\ \A j \in 2..(i - 1) : bin[j] = 0) - 1
    ELSE 0 - 1

\* Lines 192-195: the 0-based index of the first foreground element, or -1.
FirstForeground(bin) ==
    IF \E i \in 1..Len(bin) : bin[i] = 1
    THEN (CHOOSE i \in 1..Len(bin) : bin[i] = 1 /\ \A j \in 1..(i - 1) : bin[j] = 0) - 1
    ELSE 0 - 1

\* Line 207.
idxToXY(i, width) == <<i % width, i \div width>>

\* A ring point that forgets the offsets.
RingPointNoOffset(cx, cy, offsetX, offsetY) == <<cx, cy>>

\* Line 215: the point pushed for the current pixel.
RingPoint(cx, cy, offsetX, offsetY) == <<cx + offsetX, cy + offsetY>>

\* A bounds test that stops one column and one row short.
ProbeOffByOne(bin, width, height, cx, cy, prevDir, d) ==
    LET di == (prevDir + 7 + d) % 8
        nx == cx + directions[di + 1][1]
        ny == cy + directions[di + 1][2]
        inb == nx >= 0 /\ nx < width - 1 /\ ny >= 0 /\ ny < height - 1
    IN  [di |-> di, ni |-> ny * width + nx,
         hit |-> inb /\ bin[ny * width + nx + 1] = 1]

\* A neighbour taken without looking at the mask.
ProbeIgnoresMask(bin, width, height, cx, cy, prevDir, d) ==
    LET di == (prevDir + 7 + d) % 8
        nx == cx + directions[di + 1][1]
        ny == cy + directions[di + 1][2]
    IN  [di |-> di, ni |-> ny * width + nx,
         hit |-> nx >= 0 /\ nx < width /\ ny >= 0 /\ ny < height]

\* Lines 219-224 for one d: the direction index, the neighbour, and whether
\* it is an in-bounds foreground pixel.
Probe(bin, width, height, cx, cy, prevDir, d) ==
    LET di == (prevDir + 7 + d) % 8
        nx == cx + directions[di + 1][1]
        ny == cy + directions[di + 1][2]
        inb == nx >= 0 /\ nx < width /\ ny >= 0 /\ ny < height
    IN  [di |-> di, ni |-> ny * width + nx,
         hit |-> inb /\ bin[ny * width + nx + 1] = 1]

\* Lines 217-232: the first d of 0..7 whose neighbour is foreground.
FindNext(bin, width, height, cx, cy, prevDir) ==
    LET hits == {d \in 0..7 : Probe(bin, width, height, cx, cy, prevDir, d).hit}
    IN  IF hits = {} THEN [found |-> FALSE, ni |-> 0, di |-> 0]
        ELSE LET d == CHOOSE d \in hits : \A e \in hits : d <= e
                 p == Probe(bin, width, height, cx, cy, prevDir, d)
             IN  [found |-> TRUE, ni |-> p.ni, di |-> p.di]

\* An iteration that does not count itself.
WalkStepNoCount(t) ==
    LET bin   == BinOf(t.mask, t.width, t.height)
        c     == idxToXY(t.curr, t.width)
        pts   == Append(t.coords.head, RingPoint(c[1], c[2], t.offsetX, t.offsetY))
        nxt   == FindNext(bin, t.width, t.height, c[1], c[2], t.prevDir)
        curr1 == IF nxt.found THEN nxt.ni ELSE t.curr
        dir1  == IF nxt.found THEN nxt.di ELSE t.prevDir
    IN  [t EXCEPT !.coords = Arr(pts), !.curr = curr1, !.prevDir = dir1,
                  !.trail = Append(t.trail, <<t.curr, t.prevDir>>),
                  !.done = (~nxt.found) \/ (curr1 = t.start /\ Len(pts) > MinClosedRing)]

\* Lines 214-238: one iteration of the while loop.  trail records the
\* pixel and the direction each iteration started with.
WalkStep(t) ==
    LET bin   == BinOf(t.mask, t.width, t.height)
        c     == idxToXY(t.curr, t.width)
        pts   == Append(t.coords.head, RingPoint(c[1], c[2], t.offsetX, t.offsetY))
        nxt   == FindNext(bin, t.width, t.height, c[1], c[2], t.prevDir)
        curr1 == IF nxt.found THEN nxt.ni ELSE t.curr
        dir1  == IF nxt.found THEN nxt.di ELSE t.prevDir
    IN  [t EXCEPT !.coords = Arr(pts), !.curr = curr1, !.prevDir = dir1,
                  !.trail = Append(t.trail, <<t.curr, t.prevDir>>),
                  !.loopGuard = t.loopGuard + 1,
                  !.done = (~nxt.found) \/ (curr1 = t.start /\ Len(pts) > MinClosedRing)]

\* From its 21st iteration on, an iteration depends on the pixel and the
\* direction it starts with and on nothing else (coords.length > 20 holds
\* for good).  The walk recurs when it is about to start an iteration with
\* the pixel and direction one of those iterations started with: the
\* iterations since then ended without done, and repeat.
Recurs(t) ==
    \E m \in (MinClosedRing + 1)..Len(t.trail) : t.trail[m] = <<t.curr, t.prevDir>>

\* Lines 213-239 from a walk that recurs: the loop runs on to the ceiling,
\* the iterations since the recurrence repeating, and so do their points.
RunToCeiling(t) ==
    LET m     == CHOOSE m \in (MinClosedRing + 1)..Len(t.trail) :
                    t.trail[m] = <<t.curr, t.prevDir>>
        p     == Len(t.trail) - m + 1
        last  == t.trail[m + ((LoopCeiling - (m - 1)) % p)]
    IN  [t EXCEPT !.coords = [head |-> t.coords.head, period |-> p, len |-> LoopCeiling],
                  !.loopGuard = LoopCeiling,
                  !.curr = last[1], !.prevDir = last[2]]

\* Lines 196-198: the features of the collection returned.
EmptyCollection == <<>>

\* Lines 242-256: one Feature, a Polygon of the single ring coords.
OneRingCollection(coords) ==
    << [type |-> "Feature", properties |-> {},
        geometry |-> [type |-> "Polygon", coordinates |-> <<coords>>]] >>

\* The masks traced: every mask of up to TrMaxW x TrMaxH, and every mask of a
\* RectGrid x RectGrid grid whose foreground is one filled rectangle.
TrMaxW == 2
TrMaxH == 3
RectGrid == 4

RectMask(n, x0, y0, x1, y1) ==
    [i \in 1..(n * n) |->
        LET x == (i - 1) % n
            y == (i - 1) \div n
        IN  IF x >= x0 /\ x <= x1 /\ y >= y0 /\ y <= y1 THEN 255 ELSE 0]

TraceArgs ==
    UNION { { [mask |-> m, width |-> w, height |-> h] : m \in MasksOfSize(w * h) } :
              w \in 1..TrMaxW, h \in 1..TrMaxH }
    \cup
    { [mask |-> RectMask(RectGrid, x0, y0, x1, y1), width |-> RectGrid, height |-> RectGrid] :
        x0 \in 0..(RectGrid - 1), y0 \in 0..(RectGrid - 1),
        x1 \in 0..(RectGrid - 1), y1 \in 0..(RectGrid - 1) }

TraceOffsets == { <<0, 0>>, <<3, 0 - 2>> }

InitTrace ==
    /\ ortSession = NULL
    /\ modelReady = FALSE
    /\ windowOrt = FALSE
    /\ initProc = [p \in InitProcs |-> "idle"]
    /\ lastInit = "none"
    /\ source = SourceOf(0)
    /\ seg = SegIdle
    /\ sam = SamIdle
    /\ im = ImIdle
    /\ tn = TnIdle
    /\ rs = RsIdle
    /\ \E a \in TraceArgs, o \in TraceOffsets :
         tr = [TrIdle EXCEPT !.pc = "args", !.mask = a.mask, !.width = a.width,
                             !.height = a.height, !.offsetX = o[1], !.offsetY = o[2]]

\* Lines 187-198: no foreground pixel, the empty collection is returned.
TraceEmpty ==
    /\ tr.pc = "args"
    /\ FirstForeground(BinOf(tr.mask, tr.width, tr.height)) = 0 - 1
    /\ tr' = [tr EXCEPT !.pc = "done", !.features = EmptyCollection]
    /\ UNCHANGED <<sessionVars, source, seg, rs, im, tn, sam>>

\* Lines 187-212: the walk starts on the first foreground pixel.
TraceBegin ==
    /\ tr.pc = "args"
    /\ FirstForeground(BinOf(tr.mask, tr.width, tr.height)) # 0 - 1
    /\ tr' = [tr EXCEPT !.pc = "walk",
                        !.start = FirstForeground(BinOf(tr.mask, tr.width, tr.height)),
                        !.curr = FirstForeground(BinOf(tr.mask, tr.width, tr.height)),
                        !.prevDir = 0, !.done = FALSE, !.loopGuard = 0,
                        !.coords = Arr(<<>>), !.trail = <<>>]
    /\ UNCHANGED <<sessionVars, source, seg, rs, im, tn, sam>>

\* Line 213: the loop's test passes and one iteration runs.
TraceIterate ==
    /\ tr.pc = "walk"
    /\ ~tr.done
    /\ tr.loopGuard < LoopCeiling
    /\ ~Recurs(tr)
    /\ tr' = WalkStep(tr)
    /\ UNCHANGED <<sessionVars, source, seg, rs, im, tn, sam>>

\* Line 213: the loop's test passes on a walk that recurs, and the
\* iterations up to the ceiling run.
TraceRunToCeiling ==
    /\ tr.pc = "walk"
    /\ ~tr.done
    /\ tr.loopGuard < LoopCeiling
    /\ Recurs(tr)
    /\ tr' = RunToCeiling(tr)
    /\ UNCHANGED <<sessionVars, source, seg, rs, im, tn, sam>>

\* Lines 213 and 241-256: the loop's test fails and the collection is
\* returned.  The test counts itself (loopGuard++) when done is false.
TraceReturn ==
    /\ tr.pc = "walk"
    /\ tr.done \/ tr.loopGuard >= LoopCeiling
    /\ tr' = [tr EXCEPT !.pc = "done", !.features = OneRingCollection(tr.coords),
                        !.loopGuard = IF tr.done THEN tr.loopGuard ELSE tr.loopGuard + 1]
    /\ UNCHANGED <<sessionVars, source, seg, rs, im, tn, sam>>

NextTrace == TraceEmpty \/ TraceBegin \/ TraceIterate \/ TraceRunToCeiling \/ TraceReturn

SpecTrace == InitTrace /\ [][NextTrace]_vars

TraceDone == tr.pc = "done"

\* The 0-based indices of the mask's foreground pixels.
Foreground(t) == {i \in 0..(t.width * t.height - 1) : t.mask[i + 1] # 0}

\* C9: maskToGeoJSON returns no feature exactly when the mask has no
\* foreground pixel, and otherwise exactly one Feature, a Polygon with
\* exactly one ring.
C9_OneRingOrEmpty ==
    TraceDone
        => /\ (Len(tr.features) = 0) <=> (Foreground(tr) = {})
           /\ Foreground(tr) # {}
                => /\ Len(tr.features) = 1
                   /\ tr.features[1].type = "Feature"
                   /\ tr.features[1].geometry.type = "Polygon"
                   /\ Len(tr.features[1].geometry.coordinates) = 1

\* A mask whose only foreground pixel is its first element was traced.
C9_Witness ==
    /\ TraceDone
    /\ Foreground(tr) = {0}
    /\ Len(tr.features) = 1

\* C10: a mask whose only foreground pixel is (x, y) gives a ring of exactly
\* one point, (x + offsetX, y + offsetY), after a single iteration.
C10_SinglePixelRing ==
    (TraceDone /\ Cardinality(Foreground(tr)) = 1)
        => LET i == CHOOSE i \in Foreground(tr) : TRUE
               x == i % tr.width
               y == i \div tr.width
           IN  /\ Len(tr.features) = 1
               /\ tr.features[1].geometry.coordinates
                     = << Arr(<< <<x + tr.offsetX, y + tr.offsetY>> >>) >>
               /\ tr.loopGuard = 1

\* The single pixel (2, 1) of a grid, traced with offsets (3, -2).
C10_Witness ==
    /\ TraceDone
    /\ tr.width = RectGrid
    /\ Foreground(tr) = {1 * RectGrid + 2}
    /\ tr.offsetX = 3 /\ tr.offsetY = 0 - 2
    /\ tr.features[1].geometry.coordinates = << Arr(<< <<5, 0 - 1>> >>) >>

\* The ring of the returned feature, and the indices that show all of it:
\* a ring longer than its head repeats, beyond one further period, points
\* and pairs of consecutive points that lie within these indices.
Ring == tr.features[1].geometry.coordinates[1]
RingShown == 1..(IF Ring.period = 0 THEN Ring.len ELSE Len(Ring.head) + Ring.period)

\* C11: the 4 x 4 mask whose foreground is the 2 x 2 square at rows and
\* columns 1..2, traced with offset (0, 0), gives the ring (1,1), (2,1),
\* (2,2), (1,2), with or without a closing (1,1).
C11_SquareRingIsItsFourPixels ==
    (/\ TraceDone
     /\ tr.width = 4 /\ tr.height = 4
     /\ Foreground(tr) = {5, 6, 9, 10}
     /\ tr.offsetX = 0 /\ tr.offsetY = 0)
        => /\ Len(tr.features) = 1
           /\ Ring \in { Arr(<< <<1, 1>>, <<2, 1>>, <<2, 2>>, <<1, 2>> >>),
                         Arr(<< <<1, 1>>, <<2, 1>>, <<2, 2>>, <<1, 2>>, <<1, 1>> >>) }

\* The pixel at 0-based index i.
PixX(t, i) == i % t.width
PixY(t, i) == i \div t.width

MinOf(S) == CHOOSE m \in S : \A n \in S : m <= n
MaxOf(S) == CHOOSE m \in S : \A n \in S : m >= n

\* The foreground is one filled axis-aligned rectangle: every pixel of the
\* foreground's bounding box is foreground.
IsFilledRect(t) ==
    /\ Foreground(t) # {}
    /\ LET xs == {PixX(t, i) : i \in Foreground(t)}
           ys == {PixY(t, i) : i \in Foreground(t)}
       IN  \A x \in MinOf(xs)..MaxOf(xs), y \in MinOf(ys)..MaxOf(ys) :
              y * t.width + x \in Foreground(t)

\* C12: for a mask whose foreground is one filled rectangle, the smallest
\* and largest x and y of the ring, less the offsets, are the rectangle's.
C12_RectRingBoundingBox ==
    (TraceDone /\ IsFilledRect(tr))
        => LET xs == {ArrAt(Ring, k)[1] - tr.offsetX : k \in RingShown}
               ys == {ArrAt(Ring, k)[2] - tr.offsetY : k \in RingShown}
           IN  /\ MinOf(xs) = MinOf({PixX(tr, i) : i \in Foreground(tr)})
               /\ MaxOf(xs) = MaxOf({PixX(tr, i) : i \in Foreground(tr)})
               /\ MinOf(ys) = MinOf({PixY(tr, i) : i \in Foreground(tr)})
               /\ MaxOf(ys) = MaxOf({PixY(tr, i) : i \in Foreground(tr)})

\* A rectangle one pixel wide, three high, on the right border of the grid.
C12_Witness ==
    /\ TraceDone
    /\ tr.width = RectGrid
    /\ Foreground(tr) = {RectGrid - 1, 2 * RectGrid - 1, 3 * RectGrid - 1}
    /\ tr.offsetX = 3
    /\ Ring.len > 3

\* Pixel i has a foreground pixel among its eight neighbours.
HasForegroundNeighbour(t, i) ==
    \E dx \in {0 - 1, 0, 1}, dy \in {0 - 1, 0, 1} :
        /\ <<dx, dy>> # <<0, 0>>
        /\ PixX(t, i) + dx >= 0 /\ PixX(t, i) + dx < t.width
        /\ PixY(t, i) + dy >= 0 /\ PixY(t, i) + dy < t.height
        /\ (PixY(t, i) + dy) * t.width + PixX(t, i) + dx \in Foreground(t)

\* C13 as claimed: the ring never holds more points than a ceiling on the
\* order of width * height (here one iteration for each pixel and direction).
C13_CeilingIsOrderOfArea ==
    tr.pc \in {"walk", "done"} => tr.coords.len <= Len(directions) * tr.width * tr.height

\* C13, amended: every iteration counts itself and adds one point; the walk
\* goes on only while it is not done and fewer than 1000000 iterations have
\* run; it is done exactly when the pixel just recorded has no foreground
\* neighbour, or the walk is back on the start pixel with more than 20
\* points; a walk that is not done after 1000000 iterations is ended by the
\* ceiling; so it ends, with a ring of at most 1000000 points.
C13_WalkEndsByFixedCeiling ==
    [][ (tr.pc = "walk" /\ tr' # tr)
          => \/ /\ tr'.pc = "walk"
                /\ ~tr.done
                /\ tr.loopGuard < 1000000
                /\ tr'.loopGuard = tr.loopGuard + 1
                /\ tr'.coords.len = tr'.loopGuard
                /\ tr'.coords.period = 0
                /\ tr'.done <=> \/ ~HasForegroundNeighbour(tr, tr.curr)
                                \/ (tr'.curr = tr.start /\ tr'.coords.len > 20)
             \/ /\ tr'.pc = "walk"
                /\ ~tr.done /\ ~tr'.done
                /\ tr.loopGuard > 20
                /\ tr'.loopGuard = 1000000
                /\ tr'.coords.len = 1000000
                /\ tr'.coords.head = tr.coords.head
             \/ /\ tr'.pc = "done"
                /\ tr.done \/ tr.loopGuard >= 1000000
                /\ tr'.features[1].geometry.coordinates[1] = tr.coords
                /\ tr.coords.len <= 1000000 ]_vars

\* A mask of 2 x 3 pixels whose walk never came back to its start pixel:
\* the ceiling ended it, with a ring of 1000000 points.
C13_Witness ==
    /\ TraceDone
    /\ tr.width = 2 /\ tr.height = 3
    /\ Len(tr.features) = 1
    /\ ~tr.done
    /\ Ring.len = 1000000
    /\ Ring.len > Len(directions) * tr.width * tr.height
    /\ tr.offsetX = 0 /\ tr.offsetY = 0

\* The foreground pixels 8-connected to pixel i: region grown from seen.
RECURSIVE Grow(_, _)
Grow(t, seen) ==
    LET more == {j \in Foreground(t) \ seen :
                    \E i \in seen :
                        /\ PixX(t, i) - PixX(t, j) \in {0 - 1, 0, 1}
                        /\ PixY(t, i) - PixY(t, j) \in {0 - 1, 0, 1}}
    IN  IF more = {} THEN seen ELSE Grow(t, seen \cup more)

\* C18: the ring starts at the first foreground pixel in row-major order,
\* every ring point less the offsets is an in-bounds foreground pixel, every
\* two consecutive ring points are distinct 8-neighbours, and every ring
\* point lies in the 8-connected region of the first foreground pixel.
C18_RingStaysInFirstRegion ==
    (TraceDone /\ Foreground(tr) # {})
        => LET px(k) == ArrAt(Ring, k)[1] - tr.offsetX
               py(k) == ArrAt(Ring, k)[2] - tr.offsetY
               first == CHOOSE i \in Foreground(tr) : \A j \in Foreground(tr) : i <= j
           IN  /\ Ring.len >= 1
               /\ py(1) * tr.width + px(1) = first
               /\ \A k \in RingShown :
                    /\ px(k) >= 0 /\ px(k) < tr.width
                    /\ py(k) >= 0 /\ py(k) < tr.height
                    /\ py(k) * tr.width + px(k) \in Grow(tr, {first})
               /\ \A k \in RingShown :
                    k + 1 \in RingShown =>
                    /\ ArrAt(Ring, k) # ArrAt(Ring, k + 1)
                    /\ px(k) - px(k + 1) \in {0 - 1, 0, 1}
                    /\ py(k) - py(k + 1) \in {0 - 1, 0, 1}

\* A traced mask with a second region that touches no pixel of the first.
C18_Witness ==
    /\ TraceDone
    /\ tr.width = 2 /\ tr.height = 3
    /\ Foreground(tr) = {0, 1, 4}
    /\ Ring.len > 1

-----------------------------------------------------------------------------
(* maskToImageData (lines 154-164) and downloadMaskPNG (lines 169-180). *)

\* Line 154: the default of the overlayColor parameter.
DefaultOverlayColor == <<0, 120, 255, 150>>

\* The overlay colours a caller passes: the default, an opaque one, one with
\* alpha 0, one whose alpha is above the range of a byte, one with no alpha.
OverlayColors ==
    {DefaultOverlayColor, <<255, 0, 0, 255>>, <<0, 120, 255, 0>>, <<0, 120, 255, 300>>,
     <<0, 120, 255>>}

\* JavaScript truthiness of an element read from the mask.
Truthy(e) == ~e.undefined /\ e.v # 0

\* A tint that writes the overlay alpha at every pixel.
MaskToImageDataOpaque(mask, width, height, overlayColor) ==
    [width |-> width, height |-> height,
     data |-> [k \in 1..(width * height * 4) |->
                  ToUint8Clamped(At0(overlayColor, (k - 1) % 4))]]

\* Lines 155-163.  id.data is a Uint8ClampedArray of width * height * 4
\* elements; element i * 4 + c is the overlay's channel c, the alpha being
\* written as 0 where mask[i] is falsy.
MaskToImageData(mask, width, height, overlayColor) ==
    [width |-> width, height |-> height,
     data |-> [k \in 1..(width * height * 4) |->
                  LET i == (k - 1) \div 4
                      c == (k - 1) % 4
                  IN  IF c = 3 /\ ~Truthy(At0(mask, i))
                      THEN 0
                      ELSE ToUint8Clamped(At0(overlayColor, c))]]

\* The alpha channel read back from an image: element i * 4 + 3 for each pixel.
AlphaOf(image) == [i \in 1..(image.width * image.height) |-> image.data[(i - 1) * 4 + 4]]

InitTint ==
    /\ ortSession = NULL
    /\ modelReady = FALSE
    /\ windowOrt = FALSE
    /\ initProc = [p \in InitProcs |-> "idle"]
    /\ lastInit = "none"
    /\ source = SourceOf(0)
    /\ seg = SegIdle
    /\ sam = SamIdle
    /\ rs = RsIdle
    /\ tr = TrIdle
    /\ tn = TnIdle
    /\ \E w \in 1..RsMaxW, h \in 1..RsMaxH :
         \E m \in MasksOfSize(w * h) :
            im = [ImIdle EXCEPT !.pc = "args", !.mask = m, !.width = w, !.height = h]

\* maskToImageData(mask, width, height, overlayColor).
TintCall ==
    /\ im.pc = "args"
    /\ \E oc \in OverlayColors :
         im' = [im EXCEPT !.pc = "tinted", !.overlayColor = oc,
                          !.image = MaskToImageData(im.mask, im.width, im.height, oc)]
    /\ UNCHANGED <<sessionVars, source, seg, rs, tr, tn, sam>>

\* downloadMaskPNG(mask, width, height): lines 170-175, a canvas of the
\* mask's size receives the image tinted with the default overlay.
DownloadMaskCall ==
    /\ im.pc = "args"
    /\ im' = [im EXCEPT !.pc = "downloaded", !.overlayColor = DefaultOverlayColor,
                        !.canvas = [width |-> im.width, height |-> im.height],
                        !.image = MaskToImageData(im.mask, im.width, im.height,
                                                  DefaultOverlayColor)]
    /\ UNCHANGED <<sessionVars, source, seg, rs, tr, tn, sam>>

NextTint == TintCall \/ DownloadMaskCall

SpecTint == InitTint /\ [][NextTint]_vars

TintDone == im.pc \in {"tinted", "downloaded"}

\* The alpha read back reproduces the mask: 0 exactly where the mask is 0,
\* the overlay's alpha exactly where the mask is 255, same pixel dimensions.
AlphaReproducesMask ==
    LET a  == AlphaOf(im.image)
        oa == At0(im.overlayColor, 3)
    IN  /\ im.image.width = im.width
        /\ im.image.height = im.height
        /\ Len(a) = Len(im.mask)
        /\ \A i \in 1..Len(im.mask) :
             /\ a[i] = 0 <=> im.mask[i] = 0
             /\ (~oa.undefined /\ a[i] = oa.v) <=> im.mask[i] = 255

\* C14 as claimed: for every binary mask and every overlay colour, the alpha
\* channel of the tinted image reproduces the mask exactly.
C14_AlphaRoundTripAnyOverlay == TintDone => AlphaReproducesMask

\* C14, amended: the alpha channel of the tinted image reproduces the mask
\* exactly whenever the overlay's alpha is a byte from 1 to 255, which the
\* default overlay of maskToImageData and of downloadMaskPNG is.
C14_AlphaRoundTripVisibleOverlay ==
    /\ (TintDone /\ Truthy(At0(im.overlayColor, 3)) /\ At0(im.overlayColor, 3).v \in 1..255)
          => AlphaReproducesMask
    /\ im.pc = "downloaded"
          => /\ AlphaReproducesMask
             /\ im.canvas = [width |-> im.width, height |-> im.height]

\* A 2 x 2 mask of both values tinted with an overlay other than the default.
C14_Witness ==
    /\ im.pc = "tinted"
    /\ im.width = 2 /\ im.height = 2
    /\ Range(im.mask) = {0, 255}
    /\ im.overlayColor = <<255, 0, 0, 255>>
    /\ Range(AlphaOf(im.image)) = {0, 255}

-----------------------------------------------------------------------------
(* The tensor preprocessing on its own. *)

InitTensor ==
    /\ ortSession = NULL
    /\ modelReady = FALSE
    /\ windowOrt = FALSE
    /\ initProc = [p \in InitProcs |-> "idle"]
    /\ lastInit = "none"
    /\ source = SourceOf(0)
    /\ seg = SegIdle
    /\ sam = SamIdle
    /\ rs = RsIdle
    /\ tr = TrIdle
    /\ im = ImIdle
    /\ \E pixels \in [1..(TensorSide * TensorSide) -> TensorPixels] :
         tn = [TnIdle EXCEPT !.pc = "image", !.imgData = ImageDataOf(pixels)]

TensorBuild ==
    /\ tn.pc = "image"
    /\ tn' = [tn EXCEPT !.pc = "built",
                        !.floatData = FloatDataOf(tn.imgData, TensorSide),
                        !.dims = TensorDims(TensorSide)]
    /\ UNCHANGED <<sessionVars, source, seg, rs, tr, im, sam>>

SpecTensor == InitTensor /\ [][TensorBuild]_vars

\* C15: the buffer is channel-first with shape [1, 3, S, S]: the element at
\* c * S * S + y * S + x is channel c of pixel (x, y) over 255, for the
\* channels R, G, B; alpha is dropped.
C15_TensorIsChannelFirst ==
    tn.pc = "built"
        => /\ tn.dims = <<1, 3, TensorSide, TensorSide>>
           /\ Len(tn.floatData) = 3 * TensorSide * TensorSide
           /\ \A c \in 0..2, x \in 0..(TensorSide - 1), y \in 0..(TensorSide - 1) :
                tn.floatData[c * TensorSide * TensorSide + y * TensorSide + x + 1]
                    = tn.imgData[(y * TensorSide + x) * 4 + c + 1]

-----------------------------------------------------------------------------
(* Properties of the facade and the session together, checked under Spec. *)

\* The run that settled last gave something line 106 returns as a mask.
LastRunYieldsMask(s) == InterpretOutput(s.lastOut, s.crop.w, s.crop.h).ok

\* C16: in one call on a ready session the candidates are the session's
\* declared input names, or input, images, image, input_image when it
\* declares none; run is attempted on them in list order, once each, with
\* exactly that one name fed; the attempt that yields a mask is the last one;
\* the fallback runs only when every candidate has failed (a candidate also
\* fails when the handle has become null, run not being callable).
C16_OneRunPerNameInOrder ==
    [][seg' # seg =>
        /\ (seg.pc \in {"idle", "done"} /\ SessionUsable(modelReady, ortSession))
              => seg'.names = IF SessionTable[ortSession].hasInputNames
                              THEN SessionTable[ortSession].inputNames
                              ELSE <<"input", "images", "image", "input_image">>
        /\ Len(seg'.runLog) <= Len(seg'.names)
        /\ \A i \in 1..Len(seg'.runLog) : seg'.runLog[i] = {seg'.names[i]}
        /\ seg'.pc = "awaitRun"
              => /\ seg'.idx = Len(seg'.runLog)
                 /\ seg'.feeds = {seg'.names[seg'.idx]}
        /\ seg.pc = "awaitResample"
              => /\ seg'.pc = "done" /\ seg'.path = "model"
                 /\ seg'.names = seg.names /\ seg'.runLog = seg.runLog
        /\ seg.pc = "awaitRun"
              => /\ seg'.names = seg.names
                 /\ LastRunYieldsMask(seg')
                       => /\ seg'.pc = "awaitResample"
                          /\ seg'.runLog = seg.runLog
                 /\ ~LastRunYieldsMask(seg')
                       => \/ /\ seg'.pc = "awaitRun"
                             /\ seg'.runLog = Append(seg.runLog, {seg.names[seg.idx + 1]})
                          \/ /\ seg'.pc = "done" /\ seg'.path = "fallback"
                             /\ seg'.runLog = seg.runLog
                             /\ Len(seg.runLog) = Len(seg.names) \/ ortSession = NULL
    ]_vars

\* The second declared name yields the mask after the first one failed.
C16_Witness ==
    /\ SegDone
    /\ seg.path = "model"
    /\ seg.names = <<"image", "mask_input">>
    /\ seg.runLog = << {"image"}, {"mask_input"} >>

\* C17: a step of segmentBoxOnCanvas changes neither the session handle nor
\* the ready flag nor the source raster, and the box of a call in progress
\* stays what the caller passed; so a call made after a failed inference,
\* the session still being ready, attempts inference again.
C17_FacadeWritesNoSharedState ==
    [][seg' # seg =>
        /\ ortSession' = ortSession
        /\ modelReady' = modelReady
        /\ source' = source
        /\ seg.pc \in {"awaitRun", "awaitResample"} => seg'.box = seg.box
        /\ (/\ seg.pc = "done" /\ seg.path = "fallback" /\ Len(seg.runLog) >= 1
            /\ modelReady /\ ortSession # NULL
            /\ InputNamesToTry(ortSession) # <<>>)
              => /\ seg'.pc = "awaitRun"
                 /\ Len(seg'.runLog) = 1
    ]_vars

\* Every attempt of a call failed and the call fell back, and the session
\* that was loaded is still there and ready.
C17_Witness ==
    /\ SegDone
    /\ seg.path = "fallback"
    /\ seg.startInit = "ok" /\ lastInit = "ok"
    /\ Len(seg.names) >= 1
    /\ Len(seg.runLog) = Len(seg.names)
    /\ modelReady /\ ortSession # NULL

\* C19: in every reachable state, whatever initModel and segmentBoxOnCanvas
\* calls have run and however they interleaved, a true ready flag implies a
\* session handle that is not null.
C19_ReadyImpliesSession == modelReady => ortSession # NULL

\* Ready with a session after a load that succeeded, while a further load
\* is in flight and a segment call is suspended at its run.
C19_Witness ==
    /\ modelReady /\ ortSession # NULL
    /\ lastInit = "ok"
    /\ \E p \in InitProcs : initProc[p] = "loading"
    /\ seg.pc = "awaitRun"

\* C20: when an await of a segmentBoxOnCanvas call settles (a run, or the
\* resample of a run's mask), whatever initModel calls completed during the
\* suspension, the call raises nothing and either awaits again or returns a
\* mask of the clamped crop size; when a failed load has set the handle to
\* null and the settled run gave no mask, the remaining names fail at once
\* and the call returns the threshold classifier's mask.
C20_InitDuringRunIsHarmless ==
    [][(seg.pc \in {"awaitRun", "awaitResample"} /\ seg' # seg) =>
        /\ ~seg'.raised
        /\ seg'.pc \in {"awaitRun", "awaitResample", "done"}
        /\ seg.pc = "awaitResample" => seg'.pc = "done"
        /\ seg'.pc = "done"
              => /\ seg'.result.width = Max(1, Floor2(seg.box.w))
                 /\ seg'.result.height = Max(1, Floor2(seg.box.h))
                 /\ Len(seg'.result.mask) = seg'.result.width * seg'.result.height
                 /\ Range(seg'.result.mask) \subseteq {0, 255}
        /\ (seg.pc = "awaitRun" /\ ortSession = NULL /\ ~LastRunYieldsMask(seg'))
              => /\ seg'.pc = "done"
                 /\ seg'.path = "fallback"
                 /\ seg'.result.mask = BlueRuleMask(seg.crop)
    ]_vars

\* A call started on a loaded session, whose first run failed after a load
\* that failed had set the handle to null: it returned the fallback mask
\* with names left untried.
C20_Witness ==
    /\ SegDone
    /\ ~seg.raised
    /\ seg.startInit = "ok"
    /\ lastInit = "loadfailed"
    /\ ortSession = NULL
    /\ seg.path = "fallback"
    /\ Len(seg.runLog) >= 1
    /\ Len(seg.runLog) < Len(seg.names)
    /\ Len(seg.result.mask) = seg.result.width * seg.result.height

====
